---- MODULE Spec2Model ----
(***************************************************************************)
(* Model of cpu_temp_monitors.py: a fan controller that samples the CPU    *)
(* and a set of drives on two periods, maps each temperature to a duty     *)
(* with a threshold table and commands the larger duty through ipmitool.   *)
(*                                                                         *)
(* The program is single threaded: sched.scheduler runs one event at a     *)
(* time, to completion, on the thread that called scheduler.run().         *)
(*                                                                         *)
(* Temperatures are Python floats.  They are modelled in tenths of a       *)
(* degree (46.9 C is 469); the thresholds of the tables are scaled alike   *)
(* by Deg.  Time is in whole seconds; a subprocess call takes between 0    *)
(* and MaxCallTime seconds, at most MaxSlowCalls calls of a run take more  *)
(* than 0, and everything else takes no time.  An OSError raised by        *)
(* subprocess.run in set_fan_speed is not caught anywhere: it ends          *)
(* scheduler.run() and the process (pc = "crashed").                       *)
(***************************************************************************)
EXTENDS Integers, Sequences, FiniteSets, TLC

VARIABLES
    cpu_fan_speed,   \* global cpu_fan_speed
    hdd_fan_speed,   \* global hdd_fan_speed
    queue,           \* the events held by the scheduler
    now,             \* time.time()
    pc,              \* where the single thread is
    cur,             \* the event function being run: "check_cpu", "check_hdds", "none"
    cpu_temp,        \* local of check_cpu
    max_hdd_temp,    \* local of check_hdds
    dev,             \* index in HDD_LIST of the next device of the for loop
    final_speed,     \* local of update_final_fan_speed
    \* ---- observations of the run (never read by the program) ----
    commanded,       \* argument of the last set_fan_speed call, None before the first
    result,          \* how the last set_fan_speed call ended
    callsInTick,     \* set_fan_speed calls made by the running event function
    commands,        \* set_fan_speed calls made since the start, counted up to 3
    tickStart,       \* time the running event function was entered
    lastDue,         \* fire time of the event being run
    cpuRun,          \* check_cpu entered since check_hdds last returned
    lastEnd,         \* time the last event function that returned did so
    cpuBefore,       \* cpu_fan_speed when the running event function was entered
    hddBefore,       \* hdd_fan_speed when the running event function was entered
    readings,        \* readings of the devices that answered in this check_hdds
    someFailed,      \* a device did not answer in this check_hdds
    queried,         \* get_hdd_temperature calls made in this check_hdds
    slowCalls,       \* subprocess calls so far that took more than no time
    lastEntered,     \* the event put in the queue by the last scheduler.enter
    retryPending,    \* the last set_fan_speed call failed and none was made since
    \* ---- inputs and result of one isolated choose_fan_value call ----
    thresholds,
    temperature,
    chosen_value,
    prev_temperature,
    prev_value,
    calls

vars == <<cpu_fan_speed, hdd_fan_speed, queue, now, pc, cur, cpu_temp, max_hdd_temp,
          dev, final_speed, commanded, result, callsInTick, commands, tickStart, lastDue, cpuRun,
          lastEnd, cpuBefore, hddBefore, readings, someFailed, queried, slowCalls,
          lastEntered, retryPending, thresholds, temperature, chosen_value, prev_temperature,
          prev_value, calls>>

progVars == <<cpu_fan_speed, hdd_fan_speed, queue, now, pc, cur, cpu_temp, max_hdd_temp,
              dev, final_speed, commanded, result, callsInTick, commands, tickStart, lastDue, cpuRun,
              lastEnd, cpuBefore, hddBefore, readings, someFailed, queried, slowCalls,
              lastEntered, retryPending>>

funVars == <<thresholds, temperature, chosen_value, prev_temperature, prev_value, calls>>

-----------------------------------------------------------------------------
(* Bounds of the model *)

MaxTime == 61        \* no event function is started after this time
MaxCallTime == 3     \* longest subprocess call, in seconds
MaxSlowCalls == 2    \* subprocess calls of a run that take more than no time
MaxLen == 2          \* longest table given to an isolated choose_fan_value call
MaxThreshold == 2    \* largest threshold in such a table
MaxDuty == 1         \* largest fan value in such a table

-----------------------------------------------------------------------------
(* Configuration *)

Deg(d) == d * 10

CPU_SENSORS_CHECK_INTERVAL == 5
HDD_SENSORS_CHECK_INTERVAL == 60

CPU_THRESHOLDS ==
    << <<Deg(0), 0>>,  <<Deg(47), 1>>,  <<Deg(48), 2>>,  <<Deg(49), 3>>,
       <<Deg(50), 4>>, <<Deg(51), 5>>,  <<Deg(52), 6>>,  <<Deg(53), 7>>,
       <<Deg(54), 8>>, <<Deg(55), 10>>, <<Deg(60), 20>>, <<Deg(65), 25>>,
       <<Deg(70), 35>>, <<Deg(75), 100>> >>

HDD_THRESHOLDS ==
    << <<Deg(0), 0>>,  <<Deg(55), 10>>, <<Deg(58), 20>>, <<Deg(60), 30>>,
       <<Deg(65), 50>>, <<Deg(75), 100>> >>

HDD_LIST ==
    << "/dev/sda", "/dev/sdb", "/dev/sdc", "/dev/sdd", "/dev/sde", "/dev/sdf",
       "/dev/sdg", "/dev/sdh", "/dev/sdi", "/dev/sdj", "/dev/sdk", "/dev/sdl" >>

-----------------------------------------------------------------------------
(* Helpers *)

None == << >>
Some(x) == << x >>
Val(o) == o[1]

Max(a, b) == IF a >= b THEN a ELSE b

SetMax(S) == CHOOSE x \in S : \A y \in S : y <= x

(* How long the next subprocess call can take. *)
CallTimes == IF slowCalls < MaxSlowCalls THEN 0 .. MaxCallTime ELSE {0}

Slow(d) == IF d > 0 THEN slowCalls + 1 ELSE slowCalls

(* What get_cpu_temperature can return: None, or the float parsed from      *)
(* "Tctl: +<digits and dots>" (never negative): below the first non-zero    *)
(* threshold, on a threshold, and above the highest threshold.              *)
CpuReadings == { None, Some(469), Some(520), Some(700), Some(Deg(80)) }

(* What get_hdd_temperature can return: None, or float of a digit string.   *)
HddReadings == { None, Some(Deg(56)), Some(Deg(61)) }

(* How subprocess.run(command, check=True) can end: it returns, it raises   *)
(* CalledProcessError (non-zero exit status), or it raises an OSError       *)
(* (ipmitool missing or not executable), which is no CalledProcessError.    *)
RunOutcomes == { "ok", "CalledProcessError", "OSError" }

-----------------------------------------------------------------------------
(* choose_fan_value *)

RECURSIVE Scan(_, _, _, _)
Scan(temp, table, i, chosen) ==
    IF i > Len(table) THEN chosen
    ELSE IF temp >= table[i][1]
         THEN Scan(temp, table, i + 1, table[i][2])
         ELSE chosen

(* ---- variants of the scan with a plausible slip ---- *)

RECURSIVE ScanReversed(_, _, _, _)
ScanReversed(temp, table, i, chosen) ==
    IF i > Len(table) THEN chosen
    ELSE IF temp <= table[i][1]
         THEN ScanReversed(temp, table, i + 1, table[i][2])
         ELSE chosen

(* "temperature <= threshold" for "temperature >= threshold" *)
choose_fan_value_reversed(temp, table) == ScanReversed(temp, table, 1, 0)

RECURSIVE ScanStrict(_, _, _, _)
ScanStrict(temp, table, i, chosen) ==
    IF i > Len(table) THEN chosen
    ELSE IF temp > table[i][1]
         THEN ScanStrict(temp, table, i + 1, table[i][2])
         ELSE chosen

(* "temperature > threshold" for "temperature >= threshold" *)
choose_fan_value_strict(temp, table) == ScanStrict(temp, table, 1, 0)

(* chosen_value starts as the first entry's fan value instead of 0 *)
choose_fan_value_first(temp, table) ==
    Scan(temp, table, 1, IF table = << >> THEN 0 ELSE table[1][2])

choose_fan_value(temp, table) == Scan(temp, table, 1, 0)

(* Isolated calls of choose_fan_value: any table of at most MaxLen entries, *)
(* sorted or not, and any temperature around its thresholds.  The last two  *)
(* calls on the table are kept.                                              *)
Entries == (0 .. MaxThreshold) \X (-1 .. MaxDuty)

Tables == UNION { [1 .. n -> Entries] : n \in 0 .. MaxLen }

Temperatures == -1 .. MaxThreshold + 1

CallChooseFanValue ==
    /\ \E t \in Temperatures :
        /\ temperature' = t
        /\ chosen_value' = choose_fan_value(t, thresholds)
    /\ prev_temperature' = temperature
    /\ prev_value' = chosen_value
    /\ calls' = IF calls < 2 THEN calls + 1 ELSE calls
    /\ UNCHANGED thresholds
    /\ UNCHANGED progVars

-----------------------------------------------------------------------------
(* sched.scheduler *)

Event(t, p, a) == [time |-> t, priority |-> p, action |-> a]

(* the priority decides before the time *)
BeforePriority(e, f) ==
    \/ e.priority < f.priority
    \/ e.priority = f.priority /\ e.time <= f.time

(* of two events due at the same time the one entered last runs first *)
BeforeTieLast(e, f) ==
    \/ e.time < f.time
    \/ e.time = f.time /\ e.priority >= f.priority

Before(e, f) ==
    \/ e.time < f.time
    \/ e.time = f.time /\ e.priority <= f.priority

NextEvent(q) == CHOOSE e \in q : \A f \in q : Before(e, f)

(* the event function is entered at its fire time, whatever the thread does *)
StartTimeDue(due) == due

StartTime(due) == Max(now, due)

ProgInit ==
    /\ cpu_fan_speed = 0
    /\ hdd_fan_speed = 0
    /\ queue = { Event(0, 1, "check_cpu"), Event(0, 2, "check_hdds") }
    /\ now = 0
    /\ pc = "run"
    /\ cur = "none"
    /\ cpu_temp = None
    /\ max_hdd_temp = 0
    /\ dev = 1
    /\ final_speed = 0
    /\ commanded = None
    /\ result = "none"
    /\ callsInTick = 0
    /\ commands = 0
    /\ tickStart = 0
    /\ lastDue = 0
    /\ cpuRun = 0
    /\ lastEnd = 0
    /\ cpuBefore = 0
    /\ hddBefore = 0
    /\ readings = {}
    /\ someFailed = FALSE
    /\ queried = 0
    /\ slowCalls = 0
    /\ lastEntered = None
    /\ retryPending = FALSE

FunIdle ==
    /\ temperature = 0
    /\ chosen_value = 0
    /\ prev_temperature = 0
    /\ prev_value = 0
    /\ calls = 0

Init ==
    /\ ProgInit
    /\ thresholds = << >>
    /\ FunIdle

(* a due event is taken while the thread is inside the ipmitool call *)
SchedulerIdleOrCalling == pc \in {"run", "set_fan_speed"}

(* scheduler.run() takes the next event only when the previous event       *)
(* function has returned: it calls them itself, one after the other.       *)
SchedulerIdle == pc = "run"

(* scheduler.run(): take the event with the least (time, priority), sleep   *)
(* until its time if that is in the future, and call its function.          *)
SchedulerRun ==
    /\ SchedulerIdle
    /\ queue # {}
    /\ LET ev == NextEvent(queue) IN
        /\ ev.time <= MaxTime
        /\ now <= MaxTime
        /\ queue' = queue \ {ev}
        /\ now' = StartTime(ev.time)
        /\ cur' = ev.action
        /\ pc' = ev.action
        /\ lastDue' = ev.time
        /\ cpuRun' = IF ev.action = "check_cpu" THEN cpuRun + 1 ELSE cpuRun
    /\ tickStart' = now'
    /\ callsInTick' = 0
    /\ cpuBefore' = cpu_fan_speed
    /\ hddBefore' = hdd_fan_speed
    /\ readings' = {}
    /\ someFailed' = FALSE
    /\ queried' = 0
    /\ UNCHANGED <<cpu_fan_speed, hdd_fan_speed, cpu_temp, max_hdd_temp, dev, final_speed,
                   commanded, result, commands, lastEnd, slowCalls, lastEntered,
                   retryPending>>
    /\ UNCHANGED funVars

-----------------------------------------------------------------------------
(* check_cpu, lines 143-148: read the temperature and update cpu_fan_speed  *)

(* a failed read resets the duty *)
CpuDutyReset(old, reading) ==
    IF reading # None THEN choose_fan_value(Val(reading), CPU_THRESHOLDS) ELSE 0

CpuDuty(old, reading) ==
    IF reading # None THEN choose_fan_value(Val(reading), CPU_THRESHOLDS) ELSE old

CheckCpu ==
    /\ pc = "check_cpu"
    /\ \E r \in CpuReadings, d \in CallTimes :
        /\ cpu_temp' = r
        /\ now' = now + d
        /\ cpu_fan_speed' = CpuDuty(cpu_fan_speed, r)
        /\ slowCalls' = Slow(d)
    /\ pc' = "update_final_fan_speed"
    /\ UNCHANGED <<hdd_fan_speed, queue, cur, max_hdd_temp, dev, final_speed, commanded,
                   result, callsInTick, commands, tickStart, lastDue, cpuRun, lastEnd, cpuBefore, hddBefore,
                   readings, someFailed, queried, lastEntered, retryPending>>
    /\ UNCHANGED funVars

-----------------------------------------------------------------------------
(* check_hdds, lines 163-173 *)

CheckHddsBegin ==
    /\ pc = "check_hdds"
    /\ max_hdd_temp' = 0
    /\ dev' = 1
    /\ pc' = "hdd_loop"
    /\ UNCHANGED <<cpu_fan_speed, hdd_fan_speed, queue, now, cur, cpu_temp, final_speed,
                   commanded, result, callsInTick, commands, tickStart, lastDue, cpuRun, lastEnd, cpuBefore,
                   hddBefore, readings, someFailed, queried, slowCalls, lastEntered,
                   retryPending>>
    /\ UNCHANGED funVars

(* the last device that answers wins *)
NewMaxLast(old, reading) ==
    IF reading # None THEN Val(reading) ELSE old

NewMax(old, reading) ==
    IF reading # None /\ Val(reading) > old THEN Val(reading) ELSE old

(* the loop stops at the first device that does not answer *)
NextDevStop(d, reading) == IF reading = None THEN Len(HDD_LIST) + 1 ELSE d + 1

NextDev(d, reading) == d + 1

(* one iteration of "for device in HDD_LIST" *)
CheckHddsDevice ==
    /\ pc = "hdd_loop"
    /\ dev <= Len(HDD_LIST)
    /\ \E r \in HddReadings, d \in CallTimes :
        /\ now' = now + d
        /\ max_hdd_temp' = NewMax(max_hdd_temp, r)
        /\ dev' = NextDev(dev, r)
        /\ readings' = IF r # None THEN readings \cup {Val(r)} ELSE readings
        /\ someFailed' = (someFailed \/ r = None)
        /\ slowCalls' = Slow(d)
    /\ queried' = queried + 1
    /\ UNCHANGED <<cpu_fan_speed, hdd_fan_speed, queue, pc, cur, cpu_temp, final_speed,
                   commanded, result, callsInTick, commands, tickStart, lastDue, cpuRun, lastEnd, cpuBefore,
                   hddBefore, lastEntered, retryPending>>
    /\ UNCHANGED funVars

HddDuty(maxTemp) == choose_fan_value(maxTemp, HDD_THRESHOLDS)

(* the loop is over: line 172 *)
CheckHddsUpdate ==
    /\ pc = "hdd_loop"
    /\ dev > Len(HDD_LIST)
    /\ hdd_fan_speed' = HddDuty(max_hdd_temp)
    /\ pc' = "update_final_fan_speed"
    /\ UNCHANGED <<cpu_fan_speed, queue, now, cur, cpu_temp, max_hdd_temp, dev, final_speed,
                   commanded, result, callsInTick, commands, tickStart, lastDue, cpuRun, lastEnd, cpuBefore,
                   hddBefore, readings, someFailed, queried, slowCalls, lastEntered,
                   retryPending>>
    /\ UNCHANGED funVars

-----------------------------------------------------------------------------
(* update_final_fan_speed and set_fan_speed *)

(* the two duties are added *)
FinalSpeedSum(c, h) == c + h

(* the drives are ignored *)
FinalSpeedCpu(c, h) == c

FinalSpeed(c, h) == Max(c, h)

(* the result is stored in the globals the function declares *)
update_final_fan_speed_stored ==
    /\ pc = "update_final_fan_speed"
    /\ final_speed' = FinalSpeed(cpu_fan_speed, hdd_fan_speed)
    /\ cpu_fan_speed' = final_speed'
    /\ hdd_fan_speed' = final_speed'
    /\ pc' = "set_fan_speed"
    /\ UNCHANGED <<queue, now, cur, cpu_temp, max_hdd_temp, dev, commanded, result,
                   callsInTick, commands, tickStart, lastDue, cpuRun, lastEnd, cpuBefore,
                   hddBefore, readings, someFailed, queried, slowCalls, lastEntered,
                   retryPending>>
    /\ UNCHANGED funVars

update_final_fan_speed ==
    /\ pc = "update_final_fan_speed"
    /\ final_speed' = FinalSpeed(cpu_fan_speed, hdd_fan_speed)
    /\ pc' = "set_fan_speed"
    /\ UNCHANGED <<cpu_fan_speed, hdd_fan_speed, queue, now, cur, cpu_temp, max_hdd_temp,
                   dev, commanded, result, callsInTick, commands, tickStart, lastDue, cpuRun, lastEnd,
                   cpuBefore, hddBefore, readings, someFailed, queried, slowCalls, lastEntered,
                   retryPending>>
    /\ UNCHANGED funVars

(* Where the thread is after subprocess.run ended with outcome o: only      *)
(* CalledProcessError is caught (line 123); any other exception leaves      *)
(* set_fan_speed, the event function, scheduler.run() and main().           *)
(* a failed call is repeated at once *)
AfterRunRetry(o) ==
    IF o = "OSError" THEN "crashed"
    ELSE IF o = "CalledProcessError" THEN "set_fan_speed" ELSE "enter"

AfterRun(o) == IF o = "OSError" THEN "crashed" ELSE "enter"

set_fan_speed ==
    /\ pc = "set_fan_speed"
    /\ commanded' = Some(final_speed)
    /\ callsInTick' = callsInTick + 1
    /\ commands' = IF commands < 3 THEN commands + 1 ELSE commands
    /\ \E o \in RunOutcomes, d \in CallTimes :
        /\ result' = o
        /\ now' = now + d
        /\ pc' = AfterRun(o)
        /\ retryPending' = (o # "ok")
        /\ slowCalls' = Slow(d)
    /\ UNCHANGED <<cpu_fan_speed, hdd_fan_speed, queue, cur, cpu_temp, max_hdd_temp, dev,
                   final_speed, tickStart, lastDue, cpuRun, lastEnd, cpuBefore, hddBefore, readings,
                   someFailed, queried, lastEntered>>
    /\ UNCHANGED funVars

-----------------------------------------------------------------------------
(* scheduler.enter(delay, priority, action), lines 154 and 179: the event   *)
(* is due delay seconds after the time of the call.                         *)

Interval(f) ==
    IF f = "check_cpu" THEN CPU_SENSORS_CHECK_INTERVAL ELSE HDD_SENSORS_CHECK_INTERVAL

Priority(f) == IF f = "check_cpu" THEN 1 ELSE 2

(* check_hdds passes check_cpu, as line 154 does *)
RescheduledCpu(f) == "check_cpu"

(* the function an event function passes to scheduler.enter: itself *)
Rescheduled(f) == f

(* fixed rate: the period counts from the entry of the event function *)
EnterTimeFixedRate(f) == tickStart + Interval(f)

EnterTime(f) == now + Interval(f)

ScheduleNext ==
    /\ pc = "enter"
    /\ LET ev == Event(EnterTime(cur), Priority(cur), Rescheduled(cur)) IN
        /\ queue' = queue \cup {ev}
        /\ lastEntered' = Some(ev)
    /\ lastEnd' = now
    /\ cpuRun' = IF cur = "check_hdds" THEN 0 ELSE cpuRun
    /\ pc' = "run"
    /\ UNCHANGED <<cpu_fan_speed, hdd_fan_speed, now, cur, cpu_temp, max_hdd_temp, dev,
                   final_speed, commanded, result, callsInTick, commands, tickStart, lastDue,
                   cpuBefore, hddBefore, readings, someFailed, queried, slowCalls,
                   retryPending>>
    /\ UNCHANGED funVars

Next ==
    \/ SchedulerRun
    \/ CheckCpu
    \/ CheckHddsBegin
    \/ CheckHddsDevice
    \/ CheckHddsUpdate
    \/ update_final_fan_speed
    \/ set_fan_speed
    \/ ScheduleNext

Spec == Init /\ [][Next]_vars

FunInit ==
    /\ ProgInit
    /\ thresholds \in Tables
    /\ FunIdle

FunNext == CallChooseFanValue

FunSpec == FunInit /\ [][FunNext]_vars

-----------------------------------------------------------------------------
(* Properties of choose_fan_value, under FunSpec *)

SortedAscending(table) ==
    \A i \in 1 .. Len(table) - 1 : table[i][1] <= table[i + 1][1]

DutiesAscending(table) ==
    /\ \A i \in 1 .. Len(table) : table[i][2] >= 0
    /\ \A i \in 1 .. Len(table) - 1 : table[i][2] <= table[i + 1][2]

(* C7, as claimed: for every table sorted ascending by threshold,           *)
(* choose_fan_value is non-decreasing in the temperature: of two calls on   *)
(* the same table, the one with the higher temperature returns no less.     *)
C7_MonotoneIfSorted ==
    (calls = 2 /\ SortedAscending(thresholds) /\ prev_temperature <= temperature)
        => prev_value <= chosen_value

(* C7, amended: choose_fan_value is non-decreasing in the temperature for   *)
(* every table sorted ascending by threshold whose fan values are           *)
(* non-negative and non-decreasing along the table.                         *)
C7_MonotoneIfSortedAndDutiesAscending ==
    (/\ calls = 2
     /\ SortedAscending(thresholds)
     /\ DutiesAscending(thresholds)
     /\ prev_temperature <= temperature)
        => prev_value <= chosen_value

C7_Witness ==
    /\ calls = 2
    /\ Len(thresholds) >= 2
    /\ SortedAscending(thresholds)
    /\ DutiesAscending(thresholds)
    /\ prev_temperature < temperature
    /\ prev_value < chosen_value
    /\ thresholds[1][1] <= prev_temperature
    /\ chosen_value = thresholds[2][2]

(* C8, as claimed: for a sorted table and a temperature strictly below the  *)
(* smallest threshold, choose_fan_value returns the first entry's fan value.*)
C8_BelowFirstGivesFirstDuty ==
    (/\ calls >= 1
     /\ thresholds # << >>
     /\ SortedAscending(thresholds)
     /\ temperature < thresholds[1][1])
        => chosen_value = thresholds[1][2]

(* C8, amended: for a sorted table and a temperature strictly below the     *)
(* smallest threshold, choose_fan_value returns 0, whatever the first       *)
(* entry's fan value is.                                                    *)
C8_BelowFirstGivesZero ==
    (/\ calls >= 1
     /\ thresholds # << >>
     /\ SortedAscending(thresholds)
     /\ temperature < thresholds[1][1])
        => chosen_value = 0

C8_Witness ==
    /\ calls >= 1
    /\ thresholds # << >>
    /\ SortedAscending(thresholds)
    /\ temperature < thresholds[1][1]
    /\ thresholds[1][2] # 0
    /\ chosen_value = 0

(* The fan value of the last entry whose threshold is <= temp, 0 if none:   *)
(* what a scan of the whole table, without the break, selects.              *)
LastQualifying(temp, table) ==
    LET Q == { i \in 1 .. Len(table) : table[i][1] <= temp } IN
    IF Q = {} THEN 0 ELSE table[SetMax(Q)][2]

(* C9: for every table with non-decreasing thresholds and every             *)
(* temperature, the scan with early exit returns the fan value of the last  *)
(* entry whose threshold is <= the temperature (equality included), and 0   *)
(* when there is none.                                                      *)
C9_EarlyExitSelectsLastQualifying ==
    (calls >= 1 /\ SortedAscending(thresholds))
        => chosen_value = LastQualifying(temperature, thresholds)

(* the temperature is exactly a threshold, a later entry stops the scan *)
C9_Witness ==
    /\ calls >= 1
    /\ SortedAscending(thresholds)
    /\ \E i \in 1 .. Len(thresholds) - 1 :
        /\ thresholds[i][1] = temperature
        /\ thresholds[i + 1][1] > temperature
        /\ thresholds[i][2] # 0
        /\ thresholds[i + 1][2] # thresholds[i][2]
        /\ chosen_value = thresholds[i][2]

-----------------------------------------------------------------------------
(* Properties of the control loop, under Spec *)

InTick == pc \notin {"run", "crashed"}

(* the duty has been written and the event function has not returned *)
AfterUpdate == pc \in {"update_final_fan_speed", "set_fan_speed", "enter", "crashed"}

(* set_fan_speed has been called by the running event function *)
AfterCall == pc \in {"enter", "crashed"}

Larger == IF cpu_fan_speed > hdd_fan_speed THEN cpu_fan_speed ELSE hdd_fan_speed

(* C1: every value passed to set_fan_speed is the larger of cpu_fan_speed   *)
(* and hdd_fan_speed as they stand at the call, so it is never less than    *)
(* either, whatever readings succeeded or failed before.                    *)
C1_CommandIsMaxOfDuties ==
    /\ pc = "set_fan_speed" =>
        /\ final_speed = Larger
        /\ final_speed >= cpu_fan_speed
        /\ final_speed >= hdd_fan_speed
    /\ AfterCall =>
        /\ commanded = Some(Larger)
        /\ Val(commanded) >= cpu_fan_speed
        /\ Val(commanded) >= hdd_fan_speed

(* a CPU tick whose read failed commands the drives' higher duty *)
C1_Witness ==
    /\ AfterCall
    /\ cur = "check_cpu"
    /\ cpu_temp = None
    /\ cpu_fan_speed = 6
    /\ hdd_fan_speed = 30
    /\ commanded = Some(30)

(* C2: no failed reading and no failed actuator call ends the loop: the     *)
(* thread never leaves scheduler.run(), and between two event functions     *)
(* each probe has its next event in the queue.                              *)
C2_NoFailureEndsTheLoop ==
    /\ pc # "crashed"
    /\ pc = "run" => \A f \in {"check_cpu", "check_hdds"} : \E e \in queue : e.action = f

(* C3: a check_cpu whose read returned None leaves cpu_fan_speed as it was  *)
(* when check_cpu was entered; cpu_fan_speed changes only in the step of a  *)
(* check_cpu whose read succeeded, and then it is                           *)
(* choose_fan_value(reading, CPU_THRESHOLDS).                               *)
C3_FailedCpuReadKeepsDuty ==
    /\ [](cur = "check_cpu" /\ AfterUpdate /\ cpu_temp = None
            => cpu_fan_speed = cpuBefore)
    /\ [](cur = "check_cpu" /\ AfterUpdate /\ cpu_temp # None
            => cpu_fan_speed = choose_fan_value(Val(cpu_temp), CPU_THRESHOLDS))
    /\ [][cpu_fan_speed' # cpu_fan_speed => pc = "check_cpu" /\ cpu_temp' # None]_vars

C3_Witness ==
    /\ cur = "check_cpu"
    /\ pc = "enter"
    /\ cpu_temp = None
    /\ cpuBefore = 35
    /\ cpu_fan_speed = 35

MaxReading == IF readings = {} THEN 0 ELSE SetMax(readings)

(* C4: after the update of every check_hdds, all devices of HDD_LIST have   *)
(* been queried, and hdd_fan_speed is choose_fan_value of the largest       *)
(* reading of the devices that answered, of 0.0 when none answered,         *)
(* whatever hdd_fan_speed was before.                                       *)
C4_HddDutyFromMaxReading ==
    (cur = "check_hdds" /\ AfterUpdate) =>
        /\ queried = Len(HDD_LIST)
        /\ hdd_fan_speed = choose_fan_value(MaxReading, HDD_THRESHOLDS)
        /\ readings = {} => hdd_fan_speed = 0

(* no device answers in a check_hdds entered with hdd_fan_speed = 30 *)
C4_Witness ==
    /\ cur = "check_hdds"
    /\ pc = "enter"
    /\ hddBefore = 30
    /\ readings = {}
    /\ someFailed
    /\ queried = 12
    /\ hdd_fan_speed = 0

(* devices fail before and between the ones that answer: 56, 61, none *)
C4_WitnessMixed ==
    /\ cur = "check_hdds"
    /\ pc = "enter"
    /\ readings = {Deg(56), Deg(61)}
    /\ someFailed
    /\ hdd_fan_speed = 30

(* C5, as claimed: a slow call in one probe's event function does not       *)
(* delay the other probe: while an event function is running, the other     *)
(* probe's pending event is never past its fire time.                       *)
C5_OtherProbeNotDelayed ==
    InTick => \A e \in queue : e.action # cur => now <= e.time

(* C5, amended: event functions run one at a time; each is entered at its   *)
(* fire time or when the previous event function returned, whichever is     *)
(* later, so a slow call delays the other probe by the overrun.             *)
C5_TickStartsAfterPreviousEnds ==
    InTick =>
        /\ tickStart >= lastEnd
        /\ tickStart >= lastDue
        /\ tickStart = lastEnd \/ tickStart = lastDue

(* check_cpu entered late, after a check_hdds that overran its fire time *)
C5_Witness ==
    /\ cur = "check_cpu"
    /\ InTick
    /\ lastDue < tickStart
    /\ lastEntered # None
    /\ Val(lastEntered).action = "check_hdds"
    /\ tickStart = lastEnd

(* C6, as claimed: the fire time of a probe's next event is the time its    *)
(* previous event function was entered plus the probe's period.             *)
C6_NextFireIsStartPlusPeriod ==
    (pc = "run" /\ lastEntered # None) =>
        Val(lastEntered).time = tickStart + Interval(Val(lastEntered).action)

(* C6, amended: the fire time of a probe's next event is the time of the    *)
(* scheduler.enter call at the end of its event function plus the period:   *)
(* the time the event function took is added to the schedule.               *)
C6_NextFireIsEndPlusPeriod ==
    (pc = "run" /\ lastEntered # None) =>
        /\ Val(lastEntered).action = cur
        /\ Val(lastEntered) \in queue
        /\ cur = "check_cpu" =>
            Val(lastEntered).time = lastEnd + CPU_SENSORS_CHECK_INTERVAL
        /\ cur = "check_hdds" =>
            Val(lastEntered).time = lastEnd + HDD_SENSORS_CHECK_INTERVAL
        /\ lastEnd >= tickStart

(* a check_cpu that took 3 seconds is followed 8 seconds after its start *)
C6_Witness ==
    /\ pc = "run"
    /\ cur = "check_cpu"
    /\ lastEnd = tickStart + 3
    /\ lastEntered = Some(Event(tickStart + 8, 1, "check_cpu"))

(* C10: a failed set_fan_speed call is not repeated in the same event       *)
(* function, and the loop goes on to the next event function, which calls   *)
(* set_fan_speed again.                                                     *)
C10_FailedCommandIsRetriedNextTick ==
    /\ callsInTick <= 1
    /\ result \in {"CalledProcessError", "OSError"} => (InTick \/ pc = "run")

Probes == {"check_cpu", "check_hdds"}

Other(f) == IF f = "check_cpu" THEN "check_hdds" ELSE "check_cpu"

Pending(f) == { e \in queue : e.action = f }

(* C11: every event function, check_cpu with a reading, check_cpu without   *)
(* one and check_hdds alike, calls set_fan_speed exactly once, after its    *)
(* write of the duty (for check_hdds, after all devices were queried) and   *)
(* before it enters its next event; a check_cpu without a reading commands  *)
(* the larger of the old cpu_fan_speed and hdd_fan_speed.                   *)
C11_OneCommandPerTick ==
    /\ callsInTick <= 1
    /\ (InTick /\ ~AfterCall) => callsInTick = 0
    /\ AfterCall => callsInTick = 1
    /\ (cur = "check_hdds" /\ callsInTick = 1) => queried = Len(HDD_LIST)
    /\ InTick => Pending(cur) = {}
    /\ (pc = "run" /\ cur # "none") =>
        /\ callsInTick = 1
        /\ lastEntered # None
        /\ Val(lastEntered).action = cur
    /\ (cur = "check_cpu" /\ cpu_temp = None /\ callsInTick = 1) =>
        /\ cpu_fan_speed = cpuBefore
        /\ commanded = Some(IF cpuBefore > hdd_fan_speed THEN cpuBefore ELSE hdd_fan_speed)

(* a check_cpu without a reading has commanded its stale duty and entered   *)
(* its next event                                                           *)
C11_Witness ==
    /\ pc = "run"
    /\ cur = "check_cpu"
    /\ cpu_temp = None
    /\ cpuBefore = 35
    /\ hdd_fan_speed = 30
    /\ commanded = Some(35)
    /\ callsInTick = 1
    /\ Pending("check_cpu") # {}

(* C12: from the write of its duty to the end of its set_fan_speed call an  *)
(* event function is not interleaved with the other probe's: no other event *)
(* function is entered, the other duty does not change, no other            *)
(* set_fan_speed call is made, and the value commanded is the larger of the *)
(* duty just written and the other duty as it was when the function was     *)
(* entered.                                                                 *)
ArbitrationStepAlone ==
    pc \in {"update_final_fan_speed", "set_fan_speed"} =>
        /\ cur' = cur
        /\ tickStart' = tickStart
        /\ callsInTick' <= 1
        /\ cur = "check_cpu" => hdd_fan_speed' = hdd_fan_speed
        /\ cur = "check_hdds" => cpu_fan_speed' = cpu_fan_speed

C12_ArbitrationNotInterleaved ==
    /\ [][ArbitrationStepAlone]_vars
    /\ []((cur = "check_cpu" /\ AfterCall) =>
            commanded = Some(IF cpu_fan_speed > hddBefore THEN cpu_fan_speed ELSE hddBefore))
    /\ []((cur = "check_hdds" /\ AfterCall) =>
            commanded = Some(IF hdd_fan_speed > cpuBefore THEN hdd_fan_speed ELSE cpuBefore))

(* check_hdds has ended its set_fan_speed call with check_cpu overdue *)
C12_Witness ==
    /\ cur = "check_hdds"
    /\ pc = "enter"
    /\ hdd_fan_speed = 30
    /\ cpuBefore = 35
    /\ commanded = Some(35)
    /\ \E e \in Pending("check_cpu") : e.time < now

(* C13: a probe has no terminal state: as long as every read and every      *)
(* set_fan_speed call comes back, with a result or with an error, each      *)
(* probe is either running or has its next event in the queue of a running  *)
(* scheduler.                                                               *)
ProbeState(f) ==
    IF pc = "crashed" THEN "Terminated"
    ELSE IF InTick /\ cur = f THEN "Running"
    ELSE IF Pending(f) # {} THEN "Scheduled"
    ELSE "Lost"

C13_NoTerminalState ==
    \A f \in Probes : ProbeState(f) \in {"Running", "Scheduled"}

(* C14: each duty is written by its own probe only: check_cpu leaves        *)
(* hdd_fan_speed as it found it, check_hdds leaves cpu_fan_speed as it      *)
(* found it, and no step of update_final_fan_speed, set_fan_speed (failed   *)
(* or not), scheduler.enter or scheduler.run changes either.                *)
DutiesKeptOutsideReads ==
    pc \in {"update_final_fan_speed", "set_fan_speed", "enter", "run"} =>
        /\ cpu_fan_speed' = cpu_fan_speed
        /\ hdd_fan_speed' = hdd_fan_speed

C14_DutyWrittenByOwnProbeOnly ==
    /\ [](cur = "check_cpu" => hdd_fan_speed = hddBefore)
    /\ [](cur = "check_hdds" => cpu_fan_speed = cpuBefore)
    /\ [][DutiesKeptOutsideReads]_vars

(* a failed set_fan_speed call in a check_hdds that lowered its duty *)
C14_Witness ==
    /\ cur = "check_hdds"
    /\ pc = "enter"
    /\ result = "CalledProcessError"
    /\ cpuBefore = 6
    /\ cpu_fan_speed = 6
    /\ hddBefore = 30
    /\ hdd_fan_speed = 10

(* C15: the event function that runs is the one of the pending event with   *)
(* the earliest fire time: while it runs, no event left in the queue was    *)
(* due before it.                                                           *)
C15_EarliestDueRunsFirst ==
    InTick => \A e \in queue : lastDue <= e.time

(* the second check_hdds runs after several check_cpu in a row *)
C15_Witness ==
    /\ cur = "check_hdds"
    /\ InTick
    /\ cpuRun >= 3
    /\ lastDue >= HDD_SENSORS_CHECK_INTERVAL
    /\ \E e \in queue : e.action = "check_cpu" /\ e.time >= lastDue

TableDuties ==
    { CPU_THRESHOLDS[i][2] : i \in 1 .. Len(CPU_THRESHOLDS) }
        \cup { HDD_THRESHOLDS[i][2] : i \in 1 .. Len(HDD_THRESHOLDS) }

(* C16: every value passed to set_fan_speed is in 0..100 and is a fan value *)
(* of CPU_THRESHOLDS or HDD_THRESHOLDS, or 0.                               *)
C16_CommandInRange ==
    /\ pc = "set_fan_speed" => final_speed \in (TableDuties \cup {0}) \cap (0 .. 100)
    /\ commanded # None => Val(commanded) \in (TableDuties \cup {0}) \cap (0 .. 100)

(* a reading above the highest threshold *)
C16_Witness ==
    /\ AfterCall
    /\ cur = "check_cpu"
    /\ cpu_temp = Some(Deg(80))
    /\ hdd_fan_speed = 30
    /\ commanded = Some(100)

(* C17: while no event function has been left by an exception, the queue    *)
(* holds exactly one event of each probe whenever scheduler.run picks the   *)
(* next event, and exactly the other probe's event while an event function  *)
(* runs: each event function enters one event, its own.                     *)
C17_OneEventPerProbe ==
    /\ pc = "run" =>
        /\ \A f \in Probes : Cardinality(Pending(f)) = 1
        /\ Cardinality(queue) = 2
    /\ InTick =>
        /\ Pending(cur) = {}
        /\ Cardinality(Pending(Other(cur))) = 1
        /\ Cardinality(queue) = 1
    /\ (pc = "run" /\ cur # "none") => Val(lastEntered).action = cur

(* check_hdds has entered its next event after check_cpu entered its own *)
C17_Witness ==
    /\ pc = "run"
    /\ cur = "check_hdds"
    /\ result = "CalledProcessError"
    /\ someFailed
    /\ \E e \in queue : e.action = "check_hdds" /\ e.time = now + HDD_SENSORS_CHECK_INTERVAL
    /\ \E e \in queue : e.action = "check_cpu" /\ e.time > CPU_SENSORS_CHECK_INTERVAL

FirstCpuDuty ==
    IF cpu_temp = None THEN 0 ELSE choose_fan_value(Val(cpu_temp), CPU_THRESHOLDS)

(* C18: both duties are 0 until a reading is taken; the first               *)
(* set_fan_speed call is made by check_cpu, before any drive is queried,    *)
(* with the duty of the first CPU reading, or 0 if there was none; the      *)
(* second call is made by check_hdds, the first whose value can depend on   *)
(* the drives.                                                              *)
C18_FirstCommandFromCpuAlone ==
    /\ cur = "none" => (cpu_fan_speed = 0 /\ hdd_fan_speed = 0 /\ commanded = None)
    /\ commands = 0 => (cur \in {"none", "check_cpu"} /\ hdd_fan_speed = 0 /\ queried = 0)
    /\ (commands = 1 /\ callsInTick = 1) =>
        (cur = "check_cpu" /\ hdd_fan_speed = 0 /\ queried = 0)
    /\ commands = 1 => commanded = Some(FirstCpuDuty)
    /\ (commands = 2 /\ callsInTick = 1) =>
        (cur = "check_hdds" /\ queried = Len(HDD_LIST) /\ commanded = Some(Larger))

(* no CPU reading, hot drives: the first value is 0, the second 30 *)
C18_Witness ==
    /\ commands = 2
    /\ callsInTick = 1
    /\ cur = "check_hdds"
    /\ cpu_temp = None
    /\ cpu_fan_speed = 0
    /\ hdd_fan_speed = 30
    /\ commanded = Some(30)

====
